---- MODULE Spec2Model ----
(***************************************************************************)
(* Model of the request handlers of app/routes.py (EasyFigAssembler):      *)
(*   export_figure        POST /api/export-<format>                        *)
(*   convert_tiff_to_png  POST /api/convert-tiff                           *)
(* A handler is a straight-line program; every block of it is one action,  *)
(* the program counter pc says which block runs next.  What the request    *)
(* carries and what the libraries (Pillow, tifffile, Flask) answer is      *)
(* drawn with \E in the action that reads it.  A Python str is a sequence  *)
(* of one-character strings.                                               *)
(***************************************************************************)
EXTENDS Integers, Sequences, FiniteSets, TLC

VARIABLES
    pc,               \* the block of the handler that runs next
    endpoint,         \* the handler the request was routed to
    format,           \* export_figure: the path parameter <format>
    fmt,              \* export_figure: the normalized format name
    path,             \* export_figure: "multipart" | "json" (by content type)
    upload,           \* request.files.get('image'): "absent" | "present"
    img,              \* the image: its Pillow mode, or "none"
    decoded,          \* export_figure: the mode Image.open returned
    dpi_in,           \* the dpi the request supplied (a JSON-like value)
    dpi,              \* the effective dpi
    quality_in,       \* the quality the request supplied
    quality,          \* the effective quality
    data,             \* the parsed JSON body
    image_data,       \* number of bytes base64 decoding produced, -1 before
    saved,            \* the img.save(...) call made, or NoSave
    t1,               \* convert-tiff: how tier 1 ended
    arr_in,           \* convert-tiff: the array tifffile returned
    arr,              \* convert-tiff: the working array
    mode,             \* convert-tiff: the Pillow mode chosen for arr
    log,              \* the stages this request has run, in order
    resp,             \* the responses this request has returned
    raised            \* the exception that escaped the handler, or "none"

vars == <<pc, endpoint, decoded, format, fmt, path, upload, img, dpi_in, dpi,
          quality_in, quality,
          data, image_data, saved, t1, arr_in, arr, mode, log, resp, raised>>

exportVars == <<format, fmt, path, decoded, dpi_in, dpi, quality_in, quality,
                data, image_data, saved>>
tiffVars == <<t1, arr_in, arr, mode>>

(***************************************************************************)
(* Bounds of the model.                                                    *)
(***************************************************************************)
MaxFmtLen == 4      \* longest <format> drawn from FmtAlphabet
MaxB64Len == 5      \* longest base64 payload drawn from B64Classes
MaxSample == 8      \* largest sample of a tifffile array
MaxLen == 2         \* most samples of a one-row tifffile array
MaxRank == 4        \* most dimensions of a tifffile array
MaxDim == 4         \* largest size of one dimension

(***************************************************************************)
(* Program constants.                                                      *)
(***************************************************************************)
DefaultDpi == 600
MinDpi == 50
MaxDpi == 2400
DefaultQuality == 90
MinQuality == 40
MaxQuality == 95
LegacyQuality == 95

Max2(a, b) == IF a >= b THEN a ELSE b
Min2(a, b) == IF a <= b THEN a ELSE b

(***************************************************************************)
(* Python str operations.                                                  *)
(***************************************************************************)
\* str.lower() on one character (the letters the model's alphabets hold)
LowerChar(c) ==
    CASE c = "P" -> "p" [] c = "N" -> "n" [] c = "G" -> "g" [] c = "J" -> "j"
      [] c = "E" -> "e" [] c = "T" -> "t" [] c = "I" -> "i" [] c = "F" -> "f"
      [] c = "D" -> "d" [] OTHER -> c

RECURSIVE Lower(_)
Lower(s) == IF s = <<>> THEN <<>> ELSE <<LowerChar(Head(s))>> \o Lower(Tail(s))

\* str.replace(old, new): leftmost non-overlapping occurrences, old non-empty
RECURSIVE Replace(_, _, _)
Replace(s, old, new) ==
    IF Len(s) < Len(old) THEN s
    ELSE IF SubSeq(s, 1, Len(old)) = old
         THEN new \o Replace(SubSeq(s, Len(old) + 1, Len(s)), old, new)
         ELSE <<Head(s)>> \o Replace(Tail(s), old, new)

Digits == {"0", "1", "2", "3", "4", "5", "6", "7", "8", "9"}
DigitVal(c) ==
    CASE c = "0" -> 0 [] c = "1" -> 1 [] c = "2" -> 2 [] c = "3" -> 3
      [] c = "4" -> 4 [] c = "5" -> 5 [] c = "6" -> 6 [] c = "7" -> 7
      [] c = "8" -> 8 [] c = "9" -> 9

\* str.strip() of blanks
RECURSIVE LStrip(_)
LStrip(s) == IF s # <<>> /\ Head(s) = " " THEN LStrip(Tail(s)) ELSE s
RECURSIVE RStrip(_)
RStrip(s) ==
    IF s # <<>> /\ s[Len(s)] = " " THEN RStrip(SubSeq(s, 1, Len(s) - 1)) ELSE s
Strip(s) == RStrip(LStrip(s))

\* the digits of an int literal: digits, single underscores between digits
IsDigitString(s) ==
    /\ s # <<>>
    /\ \A i \in 1..Len(s) : s[i] \in Digits \cup {"_"}
    /\ s[1] \in Digits /\ s[Len(s)] \in Digits
    /\ \A i \in 1..(Len(s) - 1) : ~(s[i] = "_" /\ s[i + 1] = "_")

RECURSIVE DigitsValue(_, _)
DigitsValue(s, acc) ==
    IF s = <<>> THEN acc
    ELSE IF Head(s) = "_" THEN DigitsValue(Tail(s), acc)
         ELSE DigitsValue(Tail(s), 10 * acc + DigitVal(Head(s)))

\* the result of a call that may raise: exc = "none" and the value v, or the
\* exception's type and v = 0
Ok(n) == [exc |-> "none", v |-> n]
Raise(e) == [exc |-> e, v |-> 0]

\* int(s) for a str s
IntOfStr(s) ==
    LET t == Strip(s)
        signed == t # <<>> /\ Head(t) \in {"-", "+"}
        body == IF signed THEN Tail(t) ELSE t
    IN  IF ~IsDigitString(body) THEN Raise("ValueError")
        ELSE IF signed /\ Head(t) = "-" THEN Ok(0 - DigitsValue(body, 0))
             ELSE Ok(DigitsValue(body, 0))

(***************************************************************************)
(* JSON values as json.loads returns them: t is the Python type, n the     *)
(* number (a float in tenths), s the characters of a str, the items of a   *)
(* list of one-character strings, or the keys of a dict.                   *)
(***************************************************************************)
JAbsent == [t |-> "absent", n |-> 0, s |-> <<>>]
JNull == [t |-> "NoneType", n |-> 0, s |-> <<>>]
JBool(b) == [t |-> "bool", n |-> IF b THEN 1 ELSE 0, s |-> <<>>]
JInt(i) == [t |-> "int", n |-> i, s |-> <<>>]
JFloat(tenths) == [t |-> "float", n |-> tenths, s |-> <<>>]
JInf == [t |-> "float_inf", n |-> 0, s |-> <<>>]
JNaN == [t |-> "float_nan", n |-> 0, s |-> <<>>]
JStr(chars) == [t |-> "str", n |-> 0, s |-> chars]
JList(items) == [t |-> "list", n |-> 0, s |-> items]
JDict(keys) == [t |-> "dict", n |-> 0, s |-> keys]

\* bool(v)
Truthy(v) ==
    CASE v.t \in {"absent", "NoneType", "float_nan"} -> v.t = "float_nan"
      [] v.t \in {"bool", "int", "float"} -> v.n # 0
      [] v.t = "float_inf" -> TRUE
      [] OTHER -> v.s # <<>>

\* int(v)
PyInt(v) ==
    CASE v.t \in {"int", "bool"} -> Ok(v.n)
      [] v.t = "float" ->
            Ok(IF v.n >= 0 THEN v.n \div 10 ELSE 0 - ((0 - v.n) \div 10))
      [] v.t = "float_inf" -> Raise("OverflowError")
      [] v.t = "float_nan" -> Raise("ValueError")
      [] v.t = "str" -> IntOfStr(v.s)
      [] OTHER -> Raise("TypeError")

\* ',' in v: substring of a str, item of a list, key of a dict
RECURSIVE HasChar(_, _)
HasChar(s, c) == s # <<>> /\ (Head(s) = c \/ HasChar(Tail(s), c))

CommaIn(v) ==
    IF v.t \in {"str", "list", "dict"}
    THEN [exc |-> "none", v |-> IF HasChar(v.s, ",") THEN 1 ELSE 0]
    ELSE Raise("TypeError")

\* s.split(',', 1)[1] for a str s that holds a comma
RECURSIVE AfterFirstComma(_)
AfterFirstComma(s) ==
    IF Head(s) = "," THEN Tail(s) ELSE AfterFirstComma(Tail(s))

(***************************************************************************)
(* base64.b64decode(encoded) with validate=False, as binascii.a2b_base64   *)
(* scans it: "A" is a character of the base64 alphabet, "=" the pad, "!"   *)
(* an ASCII character outside the alphabet, "u+e9" a non-ASCII character.  *)
(***************************************************************************)
B64Alphabet == {"A"}
B64Classes == {"A", "=", "!", "u+e9"}

\* quad: position in the current group of 4; pads: pads seen since the last
\* data character; n: bytes written
RECURSIVE B64Scan(_, _, _, _)
B64Scan(s, quad, pads, n) ==
    IF s = <<>>
    THEN IF quad # 0 THEN Raise("binascii.Error") ELSE Ok(n)
    ELSE IF Head(s) = "="
         THEN IF quad >= 2 /\ quad + pads + 1 >= 4
              THEN Ok(n)
              ELSE B64Scan(Tail(s), quad, IF quad >= 2 THEN pads + 1 ELSE pads, n)
         ELSE IF Head(s) \notin B64Alphabet
              THEN B64Scan(Tail(s), quad, pads, n)
              ELSE B64Scan(Tail(s), (quad + 1) % 4, 0,
                           IF quad = 0 THEN n ELSE n + 1)

B64Decode(encoded) ==
    IF HasChar(encoded, "u+e9") THEN Raise("ValueError")
    ELSE B64Scan(encoded, 0, 0, 0)

(***************************************************************************)
(* export_figure: helpers.                                                 *)
(***************************************************************************)
Png == <<"p", "n", "g">>
Jpg == <<"j", "p", "g">>
Jpeg == <<"j", "p", "e", "g">>
Tiff == <<"t", "i", "f", "f">>
Pdf == <<"p", "d", "f">>

\* allowed = {'png', 'jpeg', 'tiff', 'pdf'}
Allowed == {Png, Jpeg, Tiff, Pdf}

\* the normalization without .lower()
NormalizeFormatCaseSensitive(f) == Replace(f, Jpg, Jpeg)

\* fmt = format.lower().replace('jpg', 'jpeg')
NormalizeFormat(f) == Replace(Lower(f), Jpg, Jpeg)

\* dpi = max(50, min(2400, dpi))
ClampDpi(n) == Max2(MinDpi, Min2(MaxDpi, n))

\* the clamp with the upper limit of Pillow's scale instead of 95
ClampQualityTo100(q) == Max2(MinQuality, Min2(100, q))

\* quality = max(40, min(95, quality))
ClampQuality(q) == Max2(MinQuality, Min2(MaxQuality, q))

\* the test with pdf left out of the formats without alpha
NeedsRgbNoPdf(m, f) == m = "RGBA" /\ f \in {Jpeg, Tiff}

\* if img.mode == 'RGBA' and fmt in {'jpeg', 'tiff', 'pdf'}
NeedsRgb(m, f) == m = "RGBA" /\ f \in {Jpeg, Tiff, Pdf}

\* the exceptions the try around int(...dpi...) catches, per pathway
DpiCaughtMultipart == {"ValueError"}
DpiCaughtJson == {"ValueError", "TypeError"}

\* the img.save(...) call each format makes; quality -1: not passed
NoSave ==
    [format |-> "none", mode |-> "none", dpi |-> 0, quality |-> -1,
     compression |-> "none"]
SaveCall(f, m, d, q) ==
    CASE f = Tiff -> [format |-> "TIFF", mode |-> m, dpi |-> d, quality |-> -1,
                      compression |-> "tiff_lzw"]
      [] f = Pdf -> [format |-> "PDF", mode |-> m, dpi |-> d, quality |-> -1,
                     compression |-> "none"]
      [] f = Jpeg -> [format |-> "JPEG", mode |-> m, dpi |-> d, quality |-> q,
                      compression |-> "none"]
      [] OTHER -> [format |-> "PNG", mode |-> m, dpi |-> d, quality |-> -1,
                   compression |-> "none"]

\* a response: jsonify({'error': ..., 'details': ...}), status; the success
\* JSON; the attachment.  details holds the code before any ':' message.
ErrorResponse(status, error, details) ==
    [status |-> status, kind |-> "error", error |-> error, details |-> details]
OkJson == [status |-> 200, kind |-> "json", error |-> "", details |-> ""]
Attachment == [status |-> 200, kind |-> "file", error |-> "", details |-> ""]
ExportFailed(status, details) == ErrorResponse(status, "Export failed", details)

\* except Exception: ... 'multipart_unhandled', 500
MultipartUnhandled == ExportFailed(500, "multipart_unhandled")

\* return <response>
Return(r) == /\ resp' = Append(resp, r)
             /\ pc' = "done"
             /\ raised' = raised

\* an exception no except clause of the handler catches
Escape(e) == /\ raised' = e
             /\ pc' = "done"
             /\ resp' = resp

Goto(l) == /\ pc' = l
           /\ resp' = resp
           /\ raised' = raised

NoArray == [dtype |-> "none", shape |-> <<>>, flat |-> <<>>]
NoBody == [top |-> "none", url |-> JAbsent, dpi |-> JAbsent, quality |-> JAbsent]

(***************************************************************************)
(* A request arrives: Flask routes it to a handler.  Handlers share no     *)
(* state: when a handler has returned its locals are gone, and the worker  *)
(* waits for the next request.                                             *)
(***************************************************************************)
Init ==
    /\ pc = "idle" /\ endpoint = "none" /\ format = <<>> /\ decoded = "none"
    /\ fmt = <<>> /\ path = "none" /\ upload = "none" /\ img = "none"
    /\ dpi_in = JAbsent /\ dpi = 0 /\ quality_in = JAbsent /\ quality = 0
    /\ data = NoBody /\ image_data = -1 /\ saved = NoSave
    /\ t1 = "none" /\ arr_in = NoArray /\ arr = NoArray /\ mode = "none"
    /\ log = <<>> /\ resp = <<>> /\ raised = "none"

\* @main_blueprint.route('/api/export-<format>', methods=['POST'])
ExportArrive(Formats) ==
    /\ pc = "idle"
    /\ \E f \in Formats : format' = f
    /\ endpoint' = "export"
    /\ pc' = "ex_format"
    /\ UNCHANGED <<fmt, path, upload, img, decoded, dpi_in, dpi, quality_in,
                   quality, data, image_data, saved, log, resp, raised>>
    /\ UNCHANGED tiffVars

\* the response (or the exception) has left the handler
Recycle ==
    /\ pc = "done"
    /\ pc' = "idle" /\ endpoint' = "none" /\ format' = <<>>
    /\ fmt' = <<>> /\ path' = "none" /\ upload' = "none" /\ img' = "none"
    /\ decoded' = "none"
    /\ dpi_in' = JAbsent /\ dpi' = 0 /\ quality_in' = JAbsent /\ quality' = 0
    /\ data' = NoBody /\ image_data' = -1 /\ saved' = NoSave
    /\ t1' = "none" /\ arr_in' = NoArray /\ arr' = NoArray /\ mode' = "none"
    /\ log' = <<>> /\ resp' = <<>> /\ raised' = "none"

(***************************************************************************)
(* export_figure                                                           *)
(***************************************************************************)
CheckFormat ==
    /\ pc = "ex_format"
    /\ fmt' = NormalizeFormat(format)
    /\ IF fmt' \notin Allowed
       THEN Return(ExportFailed(400, "unsupported format"))
       ELSE Goto("ex_dispatch")
    /\ UNCHANGED <<format, path, upload, img, dpi_in, dpi, quality_in, quality,
                   data, image_data, saved, log>>
    /\ UNCHANGED <<endpoint, decoded, tiffVars>>

\* content_type.startswith('multipart/form-data')
Dispatch ==
    /\ pc = "ex_dispatch"
    /\ \E ct \in {"multipart/form-data", "application/json", ""} :
          path' = IF ct = "multipart/form-data" THEN "multipart" ELSE "json"
    /\ Goto(IF path' = "multipart" THEN "mp_upload" ELSE "js_body")
    /\ UNCHANGED <<format, fmt, upload, img, dpi_in, dpi, quality_in, quality,
                   data, image_data, saved, log>>
    /\ UNCHANGED <<endpoint, decoded, tiffVars>>

\* request.files.get('image'): no such file, a file, or (a body over
\* MAX_CONTENT_LENGTH) werkzeug's RequestEntityTooLarge
UploadOutcomes == {"absent", "present", "RequestEntityTooLarge"}

\* upload = request.files.get('image'); if not upload: return ..., 400
MpUpload ==
    /\ pc = "mp_upload"
    /\ \E u \in UploadOutcomes : upload' = u
    /\ log' = Append(log, "files.get")
    /\ IF upload' = "RequestEntityTooLarge"
       THEN Return(MultipartUnhandled)
       ELSE IF upload' = "absent"
            THEN Return(ExportFailed(400, "missing_file"))
            ELSE Goto("mp_open")
    /\ UNCHANGED <<format, fmt, path, img, dpi_in, dpi, quality_in, quality,
                   data, image_data, saved>>
    /\ UNCHANGED <<endpoint, decoded, tiffVars>>

ImageModes == {"RGB", "RGBA", "L", "LA"}
OpenErrors == {"UnidentifiedImageError", "OSError"}

\* Image.open(...); img.load() and its two except clauses
OpenResponse(outcome) ==
    IF outcome = "UnidentifiedImageError"
    THEN ExportFailed(400, "unidentified_image")
    ELSE ExportFailed(400, "image_open")

MpOpen ==
    /\ pc = "mp_open"
    /\ log' = Append(log, "Image.open")
    /\ \E outcome \in ImageModes \cup OpenErrors :
          IF outcome \in OpenErrors
          THEN UNCHANGED <<img, decoded>> /\ Return(OpenResponse(outcome))
          ELSE img' = outcome /\ decoded' = outcome /\ Goto("mp_dpi")
    /\ UNCHANGED <<format, fmt, path, upload, dpi_in, dpi, quality_in, quality,
                   data, image_data, saved>>
    /\ UNCHANGED <<endpoint, tiffVars>>

\* try: dpi = int(request.form.get('dpi', '600')) ... dpi = max(50, min(2400, dpi))
MpDpi(FormDpis) ==
    /\ pc = "mp_dpi"
    /\ log' = Append(log, "int(dpi)")
    /\ \E d \in FormDpis :
          /\ dpi_in' = d
          /\ LET r == PyInt(IF d = JAbsent THEN JStr(<<"6", "0", "0">>) ELSE d)
             IN  IF r.exc = "none"
                 THEN dpi' = ClampDpi(r.v) /\ Goto("mp_quality")
                 ELSE IF r.exc \in DpiCaughtMultipart
                      THEN dpi' = ClampDpi(DefaultDpi) /\ Goto("mp_quality")
                      ELSE dpi' = dpi /\ Return(MultipartUnhandled)
    /\ UNCHANGED <<format, fmt, path, upload, img, quality_in, quality,
                   data, image_data, saved>>
    /\ UNCHANGED <<endpoint, decoded, tiffVars>>

\* quality = 90; if fmt == 'jpeg': try: quality = int(request.form.get(...)) ...
MpQuality(FormQualities) ==
    /\ pc = "mp_quality"
    /\ IF fmt = Jpeg
       THEN \E q \in FormQualities :
               /\ quality_in' = q
               /\ log' = Append(log, "int(quality)")
               /\ LET r == PyInt(IF q = JAbsent THEN JStr(<<"9", "0">>) ELSE q)
                  IN  IF r.exc = "none"
                      THEN quality' = ClampQuality(r.v) /\ Goto("mp_convert")
                      ELSE IF r.exc = "ValueError"
                           THEN quality' = ClampQuality(DefaultQuality)
                                /\ Goto("mp_convert")
                           ELSE quality' = DefaultQuality
                                /\ Return(MultipartUnhandled)
       ELSE /\ quality' = DefaultQuality
            /\ Goto("mp_convert")
            /\ UNCHANGED <<quality_in, log>>
    /\ UNCHANGED <<format, fmt, path, upload, img, dpi_in, dpi,
                   data, image_data, saved>>
    /\ UNCHANGED <<endpoint, decoded, tiffVars>>

\* if img.mode == 'RGBA' and fmt in {...}: img = img.convert('RGB')
\* (convert may raise, e.g. MemoryError; the outer except answers)
MpConvert ==
    /\ pc = "mp_convert"
    /\ IF NeedsRgb(img, fmt)
       THEN /\ log' = Append(log, "convert")
            /\ \E outcome \in {"ok", "MemoryError"} :
                  IF outcome = "ok"
                  THEN img' = "RGB" /\ Goto("mp_save")
                  ELSE img' = img /\ Return(MultipartUnhandled)
       ELSE UNCHANGED <<img, log>> /\ Goto("mp_save")
    /\ UNCHANGED <<format, fmt, path, upload, dpi_in, dpi, quality_in, quality,
                   data, image_data, saved>>
    /\ UNCHANGED <<endpoint, decoded, tiffVars>>

\* img.save(output_buffer, ...) and its except clause
MpSave ==
    /\ pc = "mp_save"
    /\ log' = Append(log, "save")
    /\ saved' = SaveCall(fmt, img, dpi, quality)
    /\ \E outcome \in {"ok", "OSError"} :
          IF outcome = "ok"
          THEN Goto("mp_respond")
          ELSE Return(ExportFailed(500, "save_failed"))
    /\ UNCHANGED <<format, fmt, path, upload, img, dpi_in, dpi, quality_in,
                   quality, data, image_data>>
    /\ UNCHANGED <<endpoint, decoded, tiffVars>>

\* if request.args.get('mode') == 'json': ... else send_file(...)
MpRespond ==
    /\ pc = "mp_respond"
    /\ \E m \in {"json", "absent"} :
          IF m = "json"
          THEN log' = Append(log, "b64encode") /\ Return(OkJson)
          ELSE log' = Append(log, "send_file") /\ Return(Attachment)
    /\ UNCHANGED <<format, fmt, path, upload, img, dpi_in, dpi, quality_in,
                   quality, data, image_data, saved>>
    /\ UNCHANGED <<endpoint, decoded, tiffVars>>

(***************************************************************************)
(* export_figure: the legacy JSON base64 pathway (no enclosing try).       *)
(***************************************************************************)
\* the JSON documents a body may hold: top is the type of the document, and
\* for an object url, dpi and quality are its members (JAbsent: no such key)
FalsyTops == {"NoneType", "list_empty", "int_zero", "str_empty", "bool_false"}
NonDictTops == {"list", "int", "str", "bool_true", "float"}
Malformed == [top |-> "malformed", url |-> JAbsent, dpi |-> JAbsent,
              quality |-> JAbsent]
Bodies(Urls, Dpis, Qualities) ==
    {Malformed}
    \cup {[top |-> tp, url |-> JAbsent, dpi |-> JAbsent, quality |-> JAbsent] :
             tp \in FalsyTops \cup NonDictTops}
    \cup {[top |-> "dict", url |-> u, dpi |-> d, quality |-> q] :
             u \in Urls, d \in Dpis, q \in Qualities}

\* try: data = request.get_json(force=True, silent=False) or {}
JsBody(Urls, Dpis, Qualities) ==
    /\ pc = "js_body"
    /\ log' = Append(log, "get_json")
    /\ \E b \in Bodies(Urls, Dpis, Qualities) :
          IF b.top = "malformed"
          THEN data' = data /\ Return(ExportFailed(400, "bad_json"))
          ELSE /\ data' = IF b.top \in FalsyTops
                          THEN [b EXCEPT !.top = "dict"]
                          ELSE b
               /\ Goto("js_url")
    /\ UNCHANGED <<format, fmt, path, upload, img, dpi_in, dpi, quality_in,
                   quality, image_data, saved>>
    /\ UNCHANGED <<endpoint, decoded, tiffVars>>

\* canvas_data_url = data.get('canvasDataUrl')
\* if not canvas_data_url or ',' not in canvas_data_url: return ..., 400
JsUrl ==
    /\ pc = "js_url"
    /\ IF data.top # "dict"
       THEN Escape("AttributeError")
       ELSE IF ~Truthy(data.url)
            THEN Return(ExportFailed(400, "missing_or_invalid_canvasDataUrl"))
            ELSE IF CommaIn(data.url).exc # "none"
                 THEN Escape(CommaIn(data.url).exc)
                 ELSE IF CommaIn(data.url).v = 0
                      THEN Return(ExportFailed(400,
                                      "missing_or_invalid_canvasDataUrl"))
                      ELSE Goto("js_decode")
    /\ UNCHANGED <<format, fmt, path, upload, img, dpi_in, dpi, quality_in,
                   quality, data, image_data, saved, log>>
    /\ UNCHANGED <<endpoint, decoded, tiffVars>>

\* header, encoded = canvas_data_url.split(',', 1)
\* image_data = base64.b64decode(encoded)
DecodeUrl(u) ==
    IF u.t # "str" THEN Raise("AttributeError")
    ELSE B64Decode(AfterFirstComma(u.s))

\* try: ... except Exception as e: return ... f'base64_decode:{e}' ..., 400
JsDecode ==
    /\ pc = "js_decode"
    /\ log' = Append(log, "b64decode")
    /\ IF DecodeUrl(data.url).exc # "none"
       THEN image_data' = image_data
            /\ Return(ExportFailed(400, "base64_decode"))
       ELSE image_data' = DecodeUrl(data.url).v
            /\ Goto("js_open")
    /\ UNCHANGED <<format, fmt, path, upload, img, dpi_in, dpi, quality_in,
                   quality, data, saved>>
    /\ UNCHANGED <<endpoint, decoded, tiffVars>>

\* Image.open(image_stream); img.load(): no bytes are no image
JsOpen ==
    /\ pc = "js_open"
    /\ log' = Append(log, "Image.open")
    /\ \E outcome \in IF image_data = 0 THEN {"UnidentifiedImageError"}
                      ELSE ImageModes \cup OpenErrors :
          IF outcome \in OpenErrors
          THEN UNCHANGED <<img, decoded>> /\ Return(OpenResponse(outcome))
          ELSE img' = outcome /\ decoded' = outcome /\ Goto("js_dpi")
    /\ UNCHANGED <<format, fmt, path, upload, dpi_in, dpi, quality_in, quality,
                   data, image_data, saved>>
    /\ UNCHANGED <<endpoint, tiffVars>>

\* try: dpi = int(data.get('dpi', 600)) except (ValueError, TypeError): ...
JsDpi ==
    /\ pc = "js_dpi"
    /\ log' = Append(log, "int(dpi)")
    /\ dpi_in' = data.dpi
    /\ LET r == PyInt(IF data.dpi = JAbsent THEN JInt(DefaultDpi) ELSE data.dpi)
       IN  IF r.exc = "none"
           THEN dpi' = ClampDpi(r.v) /\ Goto("js_convert")
           ELSE IF r.exc \in DpiCaughtJson
                THEN dpi' = ClampDpi(DefaultDpi) /\ Goto("js_convert")
                ELSE dpi' = dpi /\ Escape(r.exc)
    /\ UNCHANGED <<format, fmt, path, upload, img, quality_in, quality,
                   data, image_data, saved>>
    /\ UNCHANGED <<endpoint, decoded, tiffVars>>

JsConvert ==
    /\ pc = "js_convert"
    /\ IF NeedsRgb(img, fmt)
       THEN /\ log' = Append(log, "convert")
            /\ \E outcome \in {"ok", "MemoryError"} :
                  IF outcome = "ok"
                  THEN img' = "RGB" /\ Goto("js_save")
                  ELSE img' = img /\ Escape(outcome)
       ELSE UNCHANGED <<img, log>> /\ Goto("js_save")
    /\ UNCHANGED <<format, fmt, path, upload, dpi_in, dpi, quality_in, quality,
                   data, image_data, saved>>
    /\ UNCHANGED <<endpoint, decoded, tiffVars>>

\* img.save(...): JPEG with quality=95
JsSave ==
    /\ pc = "js_save"
    /\ log' = Append(log, "save")
    /\ saved' = SaveCall(fmt, img, dpi, LegacyQuality)
    /\ \E outcome \in {"ok", "OSError"} :
          IF outcome = "ok"
          THEN Goto("js_respond")
          ELSE Return(ExportFailed(500, "save_failed"))
    /\ UNCHANGED <<format, fmt, path, upload, img, dpi_in, dpi, quality_in,
                   quality, data, image_data>>
    /\ UNCHANGED <<endpoint, decoded, tiffVars>>

JsRespond ==
    /\ pc = "js_respond"
    /\ \E m \in {"json", "absent"} :
          IF m = "json"
          THEN log' = Append(log, "b64encode") /\ Return(OkJson)
          ELSE log' = Append(log, "send_file") /\ Return(Attachment)
    /\ UNCHANGED <<format, fmt, path, upload, img, dpi_in, dpi, quality_in,
                   quality, data, image_data, saved>>
    /\ UNCHANGED <<endpoint, decoded, tiffVars>>

(***************************************************************************)
(* numpy: float32 arithmetic of to_uint8.  A non-negative float32 is       *)
(* [m, e], the number m / 2^e with 2^23 <= m <= 2^24, or m = 0.            *)
(***************************************************************************)
RECURSIVE Pow2(_)
Pow2(n) == IF n = 0 THEN 1 ELSE 2 * Pow2(n - 1)

\* n / d rounded to the nearest integer, ties to even (IEEE 754 default)
RoundHalfEven(n, d) ==
    LET q == n \div d
        r == n % d
    IN  IF 2 * r < d THEN q
        ELSE IF 2 * r > d THEN q + 1
             ELSE IF q % 2 = 0 THEN q ELSE q + 1

\* the exponent e with 2^23 <= num * 2^e / den
RECURSIVE ScaleUp(_, _, _)
ScaleUp(num, den, e) ==
    IF num * Pow2(e) >= den * Pow2(23) THEN e ELSE ScaleUp(num, den, e + 1)

\* the shift t with num / 2^t < 2^24
RECURSIVE ScaleDown(_, _)
ScaleDown(num, t) ==
    IF num \div Pow2(t) < Pow2(24) THEN t ELSE ScaleDown(num, t + 1)

\* 255.0 / (mx - mn) as the float32 the multiplication uses (d in 1..255)
F32Quot(num, den) ==
    LET e == ScaleUp(num, den, 0)
    IN  [m |-> RoundHalfEven(num * Pow2(e), den), e |-> e]

\* (a - mn) * q in float32, a - mn = k a small integer
F32Times(k, q) ==
    IF k = 0 THEN [m |-> 0, e |-> 0]
    ELSE LET t == ScaleDown(k * q.m, 0)
         IN  [m |-> RoundHalfEven(k * q.m, Pow2(t)), e |-> q.e - t]

\* np.clip(x, 0, 255).astype(np.uint8): clip, then drop the fraction
ClipToUint8(x) ==
    IF x.m >= 255 * Pow2(x.e) THEN 255 ELSE x.m \div Pow2(x.e)

(***************************************************************************)
(* numpy arrays: dtype, shape, and the samples in row-major order.         *)
(***************************************************************************)
Range(f) == {f[i] : i \in DOMAIN f}
SetMin(S) == CHOOSE x \in S : \A y \in S : x <= y
SetMax(S) == CHOOSE x \in S : \A y \in S : x >= y

RECURSIVE Size(_)
Size(shape) == IF shape = <<>> THEN 1 ELSE Head(shape) * Size(Tail(shape))

\* def to_uint8(a)
to_uint8(a) ==
    IF a.dtype = "uint8" THEN a
    ELSE LET mn == SetMin(Range(a.flat))
             mx == SetMax(Range(a.flat))
         IN  IF ~(mx > mn)
             THEN [dtype |-> "uint8", shape |-> a.shape,
                   flat |-> [i \in DOMAIN a.flat |-> 0]]
             ELSE [dtype |-> "uint8", shape |-> a.shape,
                   flat |-> [i \in DOMAIN a.flat |->
                               ClipToUint8(F32Times(a.flat[i] - mn,
                                                    F32Quot(255, mx - mn)))]]

\* np.moveaxis(arr, 0, -1) of a 3-D array: (C, H, W) -> (H, W, C)
MoveAxisToEnd(a) ==
    LET C == a.shape[1]
        H == a.shape[2]
        W == a.shape[3]
    IN  [dtype |-> a.dtype, shape |-> <<H, W, C>>,
         flat |-> [j \in 1..(C * H * W) |->
                     LET c == (j - 1) % C
                         w == ((j - 1) \div C) % W
                         h == (j - 1) \div (C * W)
                     IN  a.flat[(c * H + h) * W + w + 1]]]

\* arr.squeeze(): the dimensions of size 1 are dropped
RECURSIVE DropOnes(_)
DropOnes(shape) ==
    IF shape = <<>> THEN <<>>
    ELSE IF Head(shape) = 1 THEN DropOnes(Tail(shape))
         ELSE <<Head(shape)>> \o DropOnes(Tail(shape))
Squeeze(a) == [a EXCEPT !.shape = DropOnes(a.shape)]

\* arr[..., 0] of an array of rank >= 1
FirstOfLastAxis(a) ==
    LET n == Len(a.shape)
        last == a.shape[n]
    IN  [dtype |-> a.dtype, shape |-> SubSeq(a.shape, 1, n - 1),
         flat |-> [i \in 1..(Size(a.shape) \div last) |->
                     a.flat[(i - 1) * last + 1]]]

\* mode: Optional[str] = None; if arr.ndim == 2: ... : the mode and the
\* array handed to Image.fromarray, or the exception raised on the way
ChannelLayout(a) ==
    LET ndim == Len(a.shape)
    IN  IF ndim = 2 THEN [exc |-> "none", mode |-> "L", arr |-> a]
        ELSE IF ndim = 3 /\ a.shape[3] \in {3, 4}
        THEN [exc |-> "none", arr |-> a,
              mode |-> IF a.shape[3] = 3 THEN "RGB" ELSE "RGBA"]
        ELSE IF ndim = 3 /\ a.shape[1] \in {3, 4}
        THEN [exc |-> "none", arr |-> MoveAxisToEnd(a),
              mode |-> IF MoveAxisToEnd(a).shape[3] = 3 THEN "RGB" ELSE "RGBA"]
        ELSE IF Len(Squeeze(a).shape) = 2
        THEN [exc |-> "none", mode |-> "L", arr |-> Squeeze(a)]
        ELSE IF Len(Squeeze(a).shape) = 0
        THEN [exc |-> "IndexError", mode |-> "none", arr |-> Squeeze(a)]
        ELSE [exc |-> "none", mode |-> "L",
              arr |-> FirstOfLastAxis(Squeeze(a))]

\* what Image.fromarray(arr, mode=mode) accepts
ValidLayout(m, a) ==
    \/ m = "L" /\ Len(a.shape) = 2
    \/ m = "RGB" /\ Len(a.shape) = 3 /\ a.shape[3] = 3
    \/ m = "RGBA" /\ Len(a.shape) = 3 /\ a.shape[3] = 4

(***************************************************************************)
(* The arrays tf.asarray() returns in the model.                           *)
(***************************************************************************)
\* tf.asarray() keeps the rows and the columns of an image and drops every
\* other axis of length 1: pages or planes, then rows, columns, then samples
RECURSIVE ShapesOfRank(_)
ShapesOfRank(r) ==
    IF r = 0 THEN {<<>>}
    ELSE {<<d>> \o sh : d \in 2..MaxDim, sh \in ShapesOfRank(r - 1)}
Shapes ==
    {pre \o <<rows, cols>> \o post :
        rows \in 1..MaxDim, cols \in 1..MaxDim,
        post \in ShapesOfRank(0) \cup ShapesOfRank(1),
        pre \in UNION {ShapesOfRank(r) : r \in 0..(MaxRank - 2)}}

DTypes == {"uint8", "uint16"}

\* one-row images with every combination of samples
SampleArrays ==
    {[dtype |-> dt, shape |-> <<1, Len(f)>>, flat |-> f] :
        dt \in DTypes,
        f \in UNION {[1..n -> 0..MaxSample] : n \in 1..MaxLen}}

\* every shape, the samples counting up
ShapeArrays ==
    {[dtype |-> "uint8", shape |-> sh,
      flat |-> [i \in 1..Size(sh) |-> (i - 1) % (MaxSample + 1)]] :
        sh \in Shapes}

TiffArrays == SampleArrays \cup ShapeArrays

(***************************************************************************)
(* convert_tiff_to_png                                                     *)
(***************************************************************************)
\* @main_blueprint.route('/api/convert-tiff', methods=['POST'])
TiffArrive ==
    /\ pc = "idle"
    /\ endpoint' = "convert-tiff"
    /\ pc' = "ct_upload"
    /\ UNCHANGED <<upload, img, log, resp, raised>>
    /\ UNCHANGED tiffVars
    /\ UNCHANGED exportVars

TiffError(status, error, details) == ErrorResponse(status, error, details)

\* except Exception: ... return jsonify({'error': 'unhandled'}), 500
TiffUnhandled == TiffError(500, "unhandled", "")

\* except Exception: ... return jsonify({'error': 'tiff_decode_failed'}), 500
TiffDecodeFailed == TiffError(500, "tiff_decode_failed", "")

\* the same failure without its details
MissingDependencyNoDetails == TiffError(500, "tiff_decode_failed", "")

\* return jsonify({'error': 'tiff_decode_failed',
\*                 'details': 'server_missing_tifffile'}), 500
MissingDependency == TiffError(500, "tiff_decode_failed", "server_missing_tifffile")

\* upload = request.files.get('image'); if not upload: return ..., 400
CtUpload ==
    /\ pc = "ct_upload"
    /\ \E u \in UploadOutcomes : upload' = u
    /\ log' = Append(log, "files.get")
    /\ IF upload' = "RequestEntityTooLarge"
       THEN Return(TiffUnhandled)
       ELSE IF upload' = "absent"
            THEN Return(TiffError(400, "missing_file", ""))
            ELSE Goto("ct_tier1")
    /\ UNCHANGED <<img, t1, arr_in, arr, mode>>
    /\ UNCHANGED <<endpoint, exportVars>>

\* how the first attempt (Pillow) ends: it returns the PNG, with or without
\* the swallowed failure of img.seek(0), or one of its calls raises
Tier1Outcomes ==
    {"ok", "ok_seek_raised", "UnidentifiedImageError", "open:OSError",
     "convert:ValueError", "save:OSError"}

\* only the unrecognized-format condition falls through
Tier1FallsThroughUnidentifiedOnly(outcome) == outcome = "UnidentifiedImageError"

\* except UnidentifiedImageError: pass / except Exception as e: log
Tier1FallsThrough(outcome) == outcome \notin {"ok", "ok_seek_raised"}

\* First attempt: Pillow
CtTier1 ==
    /\ pc = "ct_tier1"
    /\ log' = Append(log, "tier1")
    /\ \E outcome \in Tier1Outcomes :
          /\ t1' = outcome
          /\ IF Tier1FallsThrough(outcome)
             THEN Goto("ct_import")
             ELSE Return(OkJson)
    /\ UNCHANGED <<upload, img, arr_in, arr, mode>>
    /\ UNCHANGED <<endpoint, exportVars>>

\* Second attempt: import numpy, tifffile
CtImport ==
    /\ pc = "ct_import"
    /\ log' = Append(log, "import")
    /\ \E outcome \in {"ok", "ImportError"} :
          IF outcome = "ok"
          THEN Goto("ct_read")
          ELSE Return(MissingDependency)
    /\ UNCHANGED <<upload, img, t1, arr_in, arr, mode>>
    /\ UNCHANGED <<endpoint, exportVars>>

\* upload.stream.seek(0); with tiff.TiffFile(upload.stream) as tf: arr = ...
CtRead ==
    /\ pc = "ct_read"
    /\ log' = Append(log, "asarray")
    /\ \/ /\ \E a \in TiffArrays : arr_in' = a
          /\ arr' = arr_in'
          /\ Goto("ct_uint8")
       \/ /\ UNCHANGED <<arr_in, arr>>
          /\ Return(TiffDecodeFailed)
    /\ UNCHANGED <<upload, img, t1, mode>>
    /\ UNCHANGED <<endpoint, exportVars>>

\* arr = to_uint8(arr)
CtToUint8 ==
    /\ pc = "ct_uint8"
    /\ log' = Append(log, "to_uint8")
    /\ arr' = to_uint8(arr)
    /\ Goto("ct_layout")
    /\ UNCHANGED <<upload, img, t1, arr_in, mode>>
    /\ UNCHANGED <<endpoint, exportVars>>

\* the if / elif / else deciding mode
CtLayout ==
    /\ pc = "ct_layout"
    /\ log' = Append(log, "layout")
    /\ IF ChannelLayout(arr).exc # "none"
       THEN UNCHANGED <<arr, mode>> /\ Return(TiffDecodeFailed)
       ELSE /\ arr' = ChannelLayout(arr).arr
            /\ mode' = ChannelLayout(arr).mode
            /\ Goto("ct_encode")
    /\ UNCHANGED <<upload, img, t1, arr_in>>
    /\ UNCHANGED <<endpoint, exportVars>>

\* pil_img = Image.fromarray(arr, mode=mode) ... return jsonify({'ok': ...})
CtEncode ==
    /\ pc = "ct_encode"
    /\ log' = Append(log, "fromarray")
    /\ \E outcome \in IF ValidLayout(mode, arr) THEN {"ok", "OSError"}
                      ELSE {"ValueError"} :
          IF outcome = "ok"
          THEN img' = mode /\ Return(OkJson)
          ELSE img' = img /\ Return(TiffDecodeFailed)
    /\ UNCHANGED <<upload, t1, arr_in, arr, mode>>
    /\ UNCHANGED <<endpoint, exportVars>>

(***************************************************************************)
(* The inputs of export requests, and the specifications.                  *)
(***************************************************************************)
\* request.form values are str
FormDpis ==
    {JAbsent, JStr(<<"1", "0">>), JStr(<<"9", "9", "9", "9">>),
     JStr(<<"3", "0", "0">>), JStr(<<"a", "b", "c">>), JStr(<<>>),
     JStr(<<"-", "5">>), JStr(<<"7", "2", ".", "5">>),
     JStr(<<" ", "7", "2", " ">>), JStr(<<"1", "_", "2", "0", "0">>)}

FormQualities ==
    {JAbsent, JStr(<<"1", "0">>), JStr(<<"9", "9", "9">>), JStr(<<"7", "5">>),
     JStr(<<"h", "i">>), JStr(<<"4", "0">>), JStr(<<"9", "6">>),
     JStr(<<"8", "0", ".", "0">>)}

JsonDpis ==
    {JAbsent, JNull, JInt(10), JInt(9999), JInt(300), JInt(-1), JFloat(725),
     JInf, JNaN, JBool(TRUE), JStr(<<"1", "5", "0">>), JStr(<<"a", "b", "c">>),
     JList(<<"3">>), JDict(<<"d">>)}

JsonQualities == {JAbsent, JInt(10)}

\* "d" stands for the header of a data URL
RECURSIVE StringsUpTo(_, _)
StringsUpTo(A, n) ==
    IF n = 0 THEN {<<>>}
    ELSE StringsUpTo(A, n - 1)
         \cup {<<c>> \o t : c \in A, t \in {u \in StringsUpTo(A, n - 1) : Len(u) = n - 1}}

UrlsOther ==
    {JAbsent, JNull, JInt(5), JInt(0), JBool(TRUE), JFloat(15),
     JStr(<<>>), JStr(<<"d">>), JStr(<<"d", "A", "A", "A", "A">>),
     JList(<<"d">>), JList(<<"d", ",">>), JDict(<<",">>), JDict(<<"d">>)}

JsonUrls ==
    UrlsOther
    \cup {JStr(<<"d", ",">> \o p) :
            p \in {<<>>, <<"A", "A", "A", "A">>, <<"A", "A", "A", "=">>,
                   <<"A", "A", "=", "=">>, <<"A", "A", "A">>, <<"A">>,
                   <<"A", "A", "A", "A", "!">>, <<"!", "!">>,
                   <<"A", "A", ",", "A", "A">>, <<"A", "A", "A", "A", "u+e9">>,
                   <<"A", "A", "=", "=", "A">>, <<"=", "A", "A", "A", "A">>}}

Formats ==
    {Png, Jpg, Jpeg, Tiff, Pdf, <<"P", "N", "G">>, <<"J", "P", "G">>,
     <<"T", "i", "f", "f">>, <<"g", "i", "f">>, <<"t", "i", "f">>,
     <<"j", "p", "g", "x">>, <<"b", "m", "p">>, <<"p", "d", "f", " ">>}

ExportSteps(FDpis, FQualities, Urls, JDpis, JQualities) ==
    \/ CheckFormat
    \/ Dispatch
    \/ MpUpload
    \/ MpOpen
    \/ MpDpi(FDpis)
    \/ MpQuality(FQualities)
    \/ MpConvert
    \/ MpSave
    \/ MpRespond
    \/ JsBody(Urls, JDpis, JQualities)
    \/ JsUrl
    \/ JsDecode
    \/ JsOpen
    \/ JsDpi
    \/ JsConvert
    \/ JsSave
    \/ JsRespond

TiffSteps ==
    \/ CtUpload
    \/ CtTier1
    \/ CtImport
    \/ CtRead
    \/ CtToUint8
    \/ CtLayout
    \/ CtEncode

Next ==
    \/ ExportArrive(Formats)
    \/ ExportSteps(FormDpis, FormQualities, JsonUrls, JsonDpis, JsonQualities)
    \/ TiffArrive
    \/ TiffSteps
    \/ Recycle

Spec == Init /\ [][Next]_vars

(***************************************************************************)
(* Specifications that explore one input of export_figure exhaustively.    *)
(***************************************************************************)
\* str.upper() on one character
UpperChar(c) ==
    CASE c = "p" -> "P" [] c = "n" -> "N" [] c = "g" -> "G" [] c = "j" -> "J"
      [] c = "e" -> "E" [] c = "t" -> "T" [] c = "i" -> "I" [] c = "f" -> "F"
      [] c = "d" -> "D" [] OTHER -> c

\* every spelling of a name in upper- and lower-case letters
RECURSIVE CaseVariants(_)
CaseVariants(name) ==
    IF name = <<>> THEN {<<>>}
    ELSE {<<c>> \o r : c \in {Head(name), UpperChar(Head(name))},
                       r \in CaseVariants(Tail(name))}

AcceptedSpellings ==
    CaseVariants(Png) \cup CaseVariants(Jpg) \cup CaseVariants(Jpeg)
    \cup CaseVariants(Tiff) \cup CaseVariants(Pdf)

FmtAlphabet == {"j", "p", "g", "e", "J", "P", "x"}

\* <format> is a non-empty path segment
AllFormats ==
    (StringsUpTo(FmtAlphabet, MaxFmtLen) \ {<<>>})
    \cup AcceptedSpellings
    \cup {<<"g", "i", "f">>, <<"t", "i", "f">>, <<"b", "m", "p">>}

OneUrl == {JStr(<<"d", ",", "A", "A", "A", "A">>)}

NextFormat ==
    \/ ExportArrive(AllFormats)
    \/ ExportSteps({JAbsent}, {JAbsent}, OneUrl, {JAbsent}, {JAbsent})
    \/ Recycle

SpecFormat == Init /\ [][NextFormat]_vars

AllUrls ==
    UrlsOther
    \cup {JStr(<<"d", ",">> \o p) : p \in StringsUpTo(B64Classes \cup {","}, MaxB64Len)}

NextB64 ==
    \/ ExportArrive({Png, Jpg})
    \/ ExportSteps({JAbsent}, {JAbsent}, AllUrls, {JAbsent}, {JAbsent})
    \/ Recycle

SpecB64 == Init /\ [][NextB64]_vars

(***************************************************************************)
(* The claims.                                                             *)
(***************************************************************************)
Last(q) == q[Len(q)]
LogHas(stage) == \E i \in DOMAIN log : log[i] = stage
EndedAt(stage) == pc = "done" /\ log # <<>> /\ Last(log) = stage

\* the dpi the claim expects for a supplied value: int() of it clamped to
\* [50, 2400], and 600 when it is absent or int() of it fails
C1_ClaimedDpi(v) ==
    IF v = JAbsent \/ PyInt(v).exc # "none" THEN 600
    ELSE Max2(50, Min2(2400, PyInt(v).v))

\* C1: on both export pathways the dpi handed to the encoder is in
\* [50, 2400], is int(dpi) clamped when the supplied dpi parses and 600 when
\* it is absent or does not parse, and no supplied dpi ends the request.
C1_DpiClampedNeverFails ==
    endpoint = "export" =>
        /\ saved # NoSave =>
              saved.dpi \in 50..2400 /\ saved.dpi = C1_ClaimedDpi(dpi_in)
        /\ ~EndedAt("int(dpi)")

C2_Unsupported == <<ExportFailed(400, "unsupported format")>>

\* C2: a format that, lower-cased and with jpg -> jpeg, is none of png,
\* jpeg, tiff, pdf is answered 400 'unsupported format' before the content
\* type or the body is read and before anything is decoded or encoded; jpg
\* and every letter-case spelling of the four names is not answered so.
C2_UnsupportedFormatRejectedFirst ==
    endpoint = "export" /\ pc # "ex_format" =>
        /\ Replace(Lower(format), Jpg, Jpeg) \notin {Png, Jpeg, Tiff, Pdf} =>
              /\ pc = "done" /\ resp = C2_Unsupported /\ raised = "none"
              /\ log = <<>> /\ path = "none" /\ data = NoBody
              /\ upload = "none" /\ img = "none" /\ saved = NoSave
        /\ format \in AcceptedSpellings => resp # C2_Unsupported

C2_Witness ==
    /\ endpoint = "export" /\ pc = "done"
    /\ format = <<"j", "p", "g", "x">>
    /\ fmt = <<"j", "p", "e", "g", "x">>
    /\ resp = C2_Unsupported

\* C3: the image handed to the encoder is RGB when the decoded image is
\* RGBA and the target is jpeg, tiff or pdf, and has the decoded mode
\* otherwise, on both pathways.
C3_AlphaDroppedBeforeEncoding ==
    endpoint = "export" /\ saved # NoSave =>
        saved.mode = IF decoded = "RGBA" /\ fmt \in {Jpeg, Tiff, Pdf}
                     THEN "RGB" ELSE decoded

C3_Witness ==
    /\ endpoint = "export" /\ path = "json" /\ fmt = Pdf
    /\ decoded = "RGBA" /\ saved.mode = "RGB" /\ saved.format = "PDF"

\* the quality the claim expects on the multipart pathway
C4_ClaimedQuality(v) ==
    IF v = JAbsent \/ PyInt(v).exc # "none" THEN 90
    ELSE Max2(40, Min2(95, PyInt(v).v))

\* C4: the JPEG encoder gets int(quality) clamped to [40, 95] on the
\* multipart pathway (90 when quality is absent or not numeric), and 95 on
\* the JSON pathway whatever the body carries.
C4_JpegQuality ==
    endpoint = "export" /\ saved.format = "JPEG" =>
        /\ path = "multipart" => saved.quality = C4_ClaimedQuality(quality_in)
        /\ path = "multipart" /\ quality_in = JStr(<<"1", "0">>) =>
              saved.quality = 40
        /\ path = "multipart" /\ quality_in = JStr(<<"9", "9", "9">>) =>
              saved.quality = 95
        /\ path = "json" => saved.quality = 95

C4_Witness ==
    /\ endpoint = "export" /\ path = "multipart" /\ saved.format = "JPEG"
    /\ quality_in = JStr(<<"9", "9", "9">>) /\ saved.quality = 95

C5_Rejected == <<ExportFailed(400, "base64_decode")>>
C5_Answered ==
    /\ endpoint = "export" /\ path = "json" /\ pc = "done"
    /\ LogHas("get_json") /\ data.top = "dict"
C5_Payload == AfterFirstComma(data.url.s)

\* valid base64 (RFC 4648): groups of 4 characters of the alphabet, the last
\* group padded with at most two '='
C5_ValidBase64(p) ==
    /\ Len(p) % 4 = 0
    /\ \A i \in DOMAIN p : p[i] \in B64Alphabet \cup {"="}
    /\ \A i \in DOMAIN p :
          p[i] = "=" => i >= Len(p) - 1 /\ (i < Len(p) => p[i + 1] = "=")

\* C5: on the JSON path a canvasDataUrl whose part after the first comma is
\* not valid base64 is answered 400 with the base64_decode code, and a
\* canvasDataUrl that is no string is answered 400, never 500.
C5_MalformedBase64Rejected ==
    C5_Answered =>
        /\ (/\ data.url.t = "str" /\ HasChar(data.url.s, ",")
            /\ ~C5_ValidBase64(C5_Payload)) => resp = C5_Rejected
        /\ data.url.t \notin {"str", "absent"} =>
              /\ raised = "none"
              /\ Len(resp) = 1 /\ resp[1].status = 400

C6_StageOrder ==
    <<"files.get", "tier1", "import", "asarray", "to_uint8", "layout",
      "fromarray">>
C6_Raising ==
    {"UnidentifiedImageError", "open:OSError", "convert:ValueError",
     "save:OSError"}

\* C6: convert-tiff runs its stages in the fixed order, none twice; tier 2
\* is attempted exactly when tier 1 raised; a tier-1 success returns at
\* once; a tier-2 failure is answered 500 tiff_decode_failed; a request
\* gets exactly one response.
C6_TierOrder ==
    endpoint = "convert-tiff" =>
        /\ Len(log) <= Len(C6_StageOrder)
        /\ \A i \in DOMAIN log : log[i] = C6_StageOrder[i]
        /\ LogHas("import") => t1 \in C6_Raising
        /\ t1 \in C6_Raising => pc = "ct_import" \/ LogHas("import")
        /\ t1 \in {"ok", "ok_seek_raised"} =>
              pc = "done" /\ resp = <<OkJson>> /\ Last(log) = "tier1"
        /\ pc = "done" /\ LogHas("import") /\ resp # <<OkJson>> =>
              /\ Len(resp) = 1
              /\ resp[1].status = 500 /\ resp[1].error = "tiff_decode_failed"
        /\ raised = "none"
        /\ Len(resp) = IF pc = "done" THEN 1 ELSE 0

C6_Witness ==
    /\ endpoint = "convert-tiff" /\ EndedAt("fromarray")
    /\ t1 = "save:OSError" /\ resp = <<TiffDecodeFailed>>

\* C7 as claimed: when the import of tier 2 fails the request is answered
\* 500 with the error tag server_missing_dependency.
C7_MissingDependencyTag ==
    endpoint = "convert-tiff" /\ EndedAt("import") =>
        /\ Len(resp) = 1 /\ resp[1].status = 500
        /\ "server_missing_dependency" \in {resp[1].error, resp[1].details}

\* C7 as amended: when tier 1 has failed and the import of tier 2 fails the
\* request is answered at once with 500, error tiff_decode_failed and
\* details server_missing_tifffile, and the upload is not read again.
C7_MissingTifffile ==
    endpoint = "convert-tiff" /\ EndedAt("import") =>
        /\ resp = <<[status |-> 500, kind |-> "error",
                     error |-> "tiff_decode_failed",
                     details |-> "server_missing_tifffile"]>>
        /\ t1 \in C6_Raising
        /\ ~LogHas("asarray") /\ arr_in = NoArray /\ raised = "none"

C7_Witness ==
    /\ endpoint = "convert-tiff" /\ EndedAt("import")
    /\ t1 = "UnidentifiedImageError"

\* C8: to_uint8 returns an 8-bit array unchanged; all zeros of the same
\* shape for another array whose minimum equals its maximum; and otherwise
\* samples in [0, 255] of the same shape with the minimum at 0, the maximum
\* at 255 and the order of the samples kept.
C8_ToUint8Normalizes ==
    endpoint = "convert-tiff" /\ pc = "ct_layout" =>
        LET a == arr_in
            mn == SetMin(Range(a.flat))
            mx == SetMax(Range(a.flat))
        IN  IF a.dtype = "uint8" THEN arr = a
            ELSE /\ arr.dtype = "uint8" /\ arr.shape = a.shape
                 /\ DOMAIN arr.flat = DOMAIN a.flat
                 /\ IF mn = mx
                    THEN \A i \in DOMAIN arr.flat : arr.flat[i] = 0
                    ELSE \A i \in DOMAIN a.flat :
                            /\ arr.flat[i] \in 0..255
                            /\ a.flat[i] = mn => arr.flat[i] = 0
                            /\ a.flat[i] = mx => arr.flat[i] = 255
                            /\ \A j \in DOMAIN a.flat :
                                  a.flat[i] <= a.flat[j] =>
                                      arr.flat[i] <= arr.flat[j]

\* C9: no request ends with an exception escaping its handler: whatever no
\* specific handler catches is answered with a JSON 500.
C9_NothingEscapes ==
    pc = "done" => raised = "none" /\ Len(resp) = 1

\* C10 as claimed: whatever the shape, the layout step ends with L and a
\* 2-D array, RGB and a 3-D array ending in 3, or RGBA and one ending in 4.
C10_LayoutAlwaysValid ==
    endpoint = "convert-tiff" /\ LogHas("layout") =>
        /\ ~EndedAt("layout")
        /\ \/ mode = "L" /\ Len(arr.shape) = 2
           \/ mode = "RGB" /\ Len(arr.shape) = 3 /\ arr.shape[3] = 3
           \/ mode = "RGBA" /\ Len(arr.shape) = 3 /\ arr.shape[3] = 4

====
